---- MODULE Spec2Model ----
(***************************************************************************)
(* A model of quantmod.chart.Chart (src/quantmod/chart.py): the column     *)
(* mapping, the column-presence predicates, adjust / adjust_volume, the    *)
(* indicator registries and the figure assembly of to_figure.              *)
(*                                                                         *)
(* Python values that may have several types are tagged tuples:            *)
(*   <<"none">>, <<"bool", b>>, <<"str", s>>, <<"int", n>>, <<"dict", m>>. *)
(* Numbers of a table are <<kind, n, d>>: the rational n/d (d > 0, reduced)*)
(* when kind = "num", and the IEEE specials when kind is "inf" or "nan".   *)
(* An exception is the name of its class, or of the raise site when the    *)
(* code raises a bare Exception.                                           *)
(***************************************************************************)
EXTENDS Integers, Sequences, FiniteSets, TLC

\* ch: the chart; last: the operation that has just ended, "idle" once its
\* caller has taken the outcome; call: its arguments; err: the exception it
\* ended in, or "none"; fig: <<figure>> when it returned a figure; ret:
\* <<chart>> when it returned a chart; val: the value of the property read;
\* warned: whether it printed the 3+ indicators message; replaced: <<series>>
\* when the registration overwrote the series of a name registered before;
\* nadj: the number of in-place adjustments made so far.
VARIABLES ch, last, call, err, fig, ret, val, warned, replaced, nadj

vars == <<ch, last, call, err, fig, ret, val, warned, replaced, nadj>>

-----------------------------------------------------------------------------
(* Bounds of the model *)

\* largest number of columns of a table that carry the same name
MaxDup == 2
\* largest number of entries of the primary registry
MaxPri == 2
\* largest number of entries of the secondary registry
MaxSec == 2
\* largest number of in-place adjustments of one chart
MaxAdjust == 2

-----------------------------------------------------------------------------
(* Python values *)

None == <<"none">>
PyBool(b) == <<"bool", b>>
PyStr(s) == <<"str", s>>
PyInt(n) == <<"int", n>>

\* a datetime.datetime object
PyDatetime(n) == <<"datetime", n>>

IsNone(v) == v[1] = "none"
IsBool(v) == v[1] = "bool"
IsStr(v) == v[1] = "str"

\* Python truthiness of a tagged value
Truthy(v) ==
    CASE v[1] = "none" -> FALSE
      [] v[1] = "bool" -> v[2]
      [] v[1] = "str" -> v[2] # ""
      [] v[1] = "int" -> v[2] # 0
      [] OTHER -> TRUE

-----------------------------------------------------------------------------
(* Numbers: elementwise float arithmetic of the table columns *)

Abs(x) == IF x < 0 THEN -x ELSE x

RECURSIVE Gcd(_, _)
Gcd(a, b) == IF b = 0 THEN a ELSE Gcd(b, a % b)

Num(n, d) ==
    LET g == Gcd(Abs(n), d)
    IN  IF n = 0 THEN <<"num", 0, 1>> ELSE <<"num", n \div g, d \div g>>

NaN == <<"nan", 0, 1>>
Inf == <<"inf", 1, 1>>
NegInf == <<"inf", -1, 1>>

\* true division x / y as numpy computes it on floats: a zero divisor gives
\* inf or nan and never raises.
Div(x, y) ==
    CASE x[1] = "nan" \/ y[1] = "nan" -> NaN
      [] x[1] = "inf" /\ y[1] = "inf" -> NaN
      [] x[1] = "inf" -> IF y[2] < 0 THEN (IF x[2] > 0 THEN NegInf ELSE Inf) ELSE x
      [] y[1] = "inf" -> Num(0, 1)
      [] y[2] = 0 -> IF x[2] = 0 THEN NaN ELSE IF x[2] > 0 THEN Inf ELSE NegInf
      [] OTHER ->
           IF y[2] > 0 THEN Num(x[2] * y[3], x[3] * y[2])
                       ELSE Num(-(x[2] * y[3]), x[3] * (-(y[2])))

\* x - y
Sub(x, y) ==
    CASE x[1] = "nan" \/ y[1] = "nan" -> NaN
      [] x[1] = "inf" /\ y[1] = "inf" -> IF x[2] = y[2] THEN NaN ELSE x
      [] x[1] = "inf" -> x
      [] y[1] = "inf" -> IF y[2] > 0 THEN NegInf ELSE Inf
      [] OTHER -> Num(x[2] * y[3] - y[2] * x[3], x[3] * y[3])

\* x >= 0 (every comparison with nan is false)
GeZero(x) ==
    CASE x[1] = "nan" -> FALSE
      [] OTHER -> x[2] >= 0

-----------------------------------------------------------------------------
(* str.format of the subtitle texts *)

\* three digits, zero padded
Pad3(n) ==
    IF n < 10 THEN "00" \o ToString(n)
    ELSE IF n < 100 THEN "0" \o ToString(n) ELSE ToString(n)

\* two digits, zero padded
Pad2(n) == IF n < 10 THEN "0" \o ToString(n) ELSE ToString(n)

\* the ',' option: a non-negative integer with thousands separators
RECURSIVE Thousands(_)
Thousands(n) ==
    IF n < 1000 THEN ToString(n)
    ELSE Thousands(n \div 1000) \o "," \o Pad3(n % 1000)

\* n/d rounded to hundredths, ties to even: the number of hundredths
RoundCents(n, d) ==
    LET q == (n * 100) \div d
        r == (n * 100) % d
    IN  IF 2 * r > d THEN q + 1
        ELSE IF 2 * r < d THEN q
        ELSE IF q % 2 = 0 THEN q ELSE q + 1

\* '{0:,.02f}'.format(x)
FormatFixed2(x) ==
    CASE x[1] = "nan" -> "nan"
      [] x[1] = "inf" -> IF x[2] > 0 THEN "inf" ELSE "-inf"
      [] OTHER ->
           LET c == RoundCents(Abs(x[2]), x[3])
               body == Thousands(c \div 100) \o "." \o Pad2(c % 100)
           IN  IF x[2] < 0 THEN "-" \o body ELSE body

\* the digits after the point of the fraction r/d, 0 <= r < d, for a
\* terminating expansion (at most k digits are produced)
RECURSIVE FracDigits(_, _, _)
FracDigits(r, d, k) ==
    IF r = 0 \/ k = 0 THEN ""
    ELSE ToString((r * 10) \div d) \o FracDigits((r * 10) % d, d, k - 1)

\* '{0}'.format(x) in the place of '{0:,}'.format(x): no thousands separator
FormatComma_Plain(dtype, x) ==
    CASE x[1] = "nan" -> "nan"
      [] x[1] = "inf" -> IF x[2] > 0 THEN "inf" ELSE "-inf"
      [] OTHER ->
           LET a == Abs(x[2])
               whole == ToString(a \div x[3])
               frac == IF a % x[3] = 0 THEN "0"
                       ELSE FracDigits(a % x[3], x[3], 17)
               body == IF dtype = "int" THEN whole ELSE whole \o "." \o frac
           IN  IF x[2] < 0 THEN "-" \o body ELSE body

\* '{0:,}'.format(x): an int64 prints as an integer, a float64 always with a
\* fractional part
FormatComma(dtype, x) ==
    CASE x[1] = "nan" -> "nan"
      [] x[1] = "inf" -> IF x[2] > 0 THEN "inf" ELSE "-inf"
      [] OTHER ->
           LET a == Abs(x[2])
               whole == Thousands(a \div x[3])
               frac == IF a % x[3] = 0 THEN "0"
                       ELSE FracDigits(a % x[3], x[3], 17)
               body == IF dtype = "int" THEN whole ELSE whole \o "." \o frac
           IN  IF x[2] < 0 THEN "-" \o body ELSE body

-----------------------------------------------------------------------------
(* The price table: a DataFrame whose column labels may repeat *)

ColNames == {"Open", "High", "Low", "Close", "Volume", "Adj Close"}

NoCol == [dtype |-> "none", vals |-> <<>>]

IntCol(s) == [dtype |-> "int", vals |-> [i \in DOMAIN s |-> Num(s[i], 1)]]

\* the time index of the tables of the model: two rows
Index2 == <<1, 2>>

\* the values each column holds when a table has it
DataA ==
    [n \in ColNames |->
        CASE n = "Open" -> IntCol(<<10, 11>>)
          [] n = "High" -> IntCol(<<12, 12>>)
          [] n = "Low" -> IntCol(<<9, 10>>)
          [] n = "Close" -> IntCol(<<11, 10>>)
          [] n = "Volume" -> IntCol(<<1000, 1500>>)
          [] n = "Adj Close" -> IntCol(<<11, 5>>)]

DataB ==
    [n \in ColNames |->
        CASE n = "Open" -> IntCol(<<10, 10>>)
          [] n = "High" -> IntCol(<<12, 13>>)
          [] n = "Low" -> IntCol(<<9, 10>>)
          [] n = "Close" -> IntCol(<<11, 12>>)
          [] n = "Volume" -> IntCol(<<1000, 2500000>>)
          [] n = "Adj Close" -> IntCol(<<11, 0>>)]

DataSets == {DataA, DataB}

\* a table with mult[n] columns labelled n, each holding data[n]; obj names
\* the DataFrame object, so that two tables of equal content can be told apart
Table(mult, data) ==
    [index |-> Index2,
     mult |-> mult,
     col |-> [n \in ColNames |-> IF mult[n] > 0 THEN data[n] ELSE NoCol],
     obj |-> 0]

\* df2 = df, the same object under another name
Copy_Alias(df) == df

\* df.copy(): a new object with the content of df
Copy(df) == [df EXCEPT !.obj = df.obj + 1]

\* number of columns of df labelled name
Mult(df, name) == IF name \in ColNames THEN df.mult[name] ELSE 0

\* name in df.columns
InColumns(df, name) == Mult(df, name) > 0

\* df.columns.isin(cols), summed: the number of columns whose label is in cols
RECURSIVE SumIsin(_, _)
SumIsin(df, cols) ==
    IF cols = {} THEN 0
    ELSE LET c == CHOOSE x \in cols : TRUE
         IN  Mult(df, c) + SumIsin(df, cols \ {c})

\* df[name]: a KeyError when no column has the label, a Series when one has,
\* a DataFrame when several have
GetItem(df, name) ==
    IF Mult(df, name) = 0 THEN "KeyError"
    ELSE IF Mult(df, name) = 1 THEN "series" ELSE "frame"

\* df[name] = column, for a label carried by at most one column
SetItem(df, name, column) ==
    [df EXCEPT !.mult[name] = 1, !.col[name] = column]

\* series / ratio, elementwise
DivCol(c, ratio) ==
    [dtype |-> "float", vals |-> [i \in DOMAIN c.vals |-> Div(c.vals[i], ratio[i])]]

-----------------------------------------------------------------------------
(* Column mapping *)

Mapping(o, h, l, c, ac, v) ==
    [op |-> o, hi |-> h, lo |-> l, cl |-> c,
     aop |-> "Adj Open", ahi |-> "Adj High", alo |-> "Adj Low", acl |-> ac,
     vo |-> v, di |-> "Dividend"]

Yahoo == Mapping("Open", "High", "Low", "Close", "Adj Close", "Volume")

\* explicit mappings a caller passes as a dict
AdjDict == Mapping("Open", "High", "Low", "Adj Close", "Adj Close", "Volume")
CloseDict == Mapping("Close", "Close", "Close", "Close", "Adj Close", "Volume")
HighDict == Mapping("High", "High", "Low", "Close", "Adj Close", "Volume")

PyDict(m) == <<"dict", m>>

\* factory.get_source(name)
get_source(name) ==
    IF name = "yahoo" THEN [err |-> "none", src |-> Yahoo]
    ELSE [err |-> "ConfigurationError", src |-> Yahoo]

\* tools.get_config_file()['source']
ConfigSource == "yahoo"

-----------------------------------------------------------------------------
(* Chart.__init__ *)

\* pd.DataFrame([], index=df.index): the indicator table, no column yet
EmptyInd(df) == [index |-> df.index, col |-> <<>>]

\* x == False in Python: False itself and the integer 0
EqFalse(x) == (x[1] = "bool" /\ x[2] = FALSE) \/ (x[1] = "int" /\ x[2] = 0)

\* the src argument resolved to a mapping, or the error of the resolution
ResolveSrc(src) ==
    IF ~IsNone(src)
    THEN IF IsStr(src) THEN get_source(src[2])
         ELSE IF src[1] = "dict" THEN [err |-> "none", src |-> src[2]]
         ELSE [err |-> "TypeError", src |-> Yahoo]
    ELSE get_source(ConfigSource)

\* the ticker argument checked; None becomes False
ResolveTicker(ticker) ==
    IF ~IsNone(ticker)
    THEN IF EqFalse(ticker) \/ IsStr(ticker) THEN [err |-> "none", v |-> ticker]
         ELSE [err |-> "TypeError", v |-> ticker]
    ELSE [err |-> "none", v |-> PyBool(FALSE)]

\* the start (i = 1) or end (i = Len(index)) argument checked; the third test
\* of the code reads the attribute dt.dateime, which the datetime module
\* does not have
ResolveBound(b, df, first) ==
    IF ~IsNone(b)
    THEN IF EqFalse(b) \/ IsStr(b) THEN [err |-> "none", v |-> b]
         ELSE [err |-> "AttributeError", v |-> b]
    ELSE IF df.index = <<>> THEN [err |-> "IndexError", v |-> b]
         ELSE [err |-> "none",
               v |-> <<"stamp", IF first THEN df.index[1] ELSE df.index[Len(df.index)]>>]

\* Chart(df, src, ticker, start, end): [err, chart]
ChartInit(df, src, ticker, start, end) ==
    LET s == ResolveSrc(src)
        t == ResolveTicker(ticker)
        b == ResolveBound(start, df, TRUE)
        e == ResolveBound(end, df, FALSE)
        error == IF s.err # "none" THEN s.err
                 ELSE IF t.err # "none" THEN t.err
                 ELSE IF b.err # "none" THEN b.err
                 ELSE e.err
    IN  [err |-> error,
         chart |-> [df |-> df, ticker |-> t.v, start |-> b.v, end |-> e.v,
                    op |-> s.src.op, hi |-> s.src.hi, lo |-> s.src.lo,
                    cl |-> s.src.cl, aop |-> s.src.aop, ahi |-> s.src.ahi,
                    alo |-> s.src.alo, acl |-> s.src.acl, vo |-> s.src.vo,
                    di |-> s.src.di,
                    ind |-> EmptyInd(df), pri |-> <<>>, sec |-> <<>>]]

\* a client builds another chart: Chart(df, src, ticker, start, end)
Construct(df, src, ticker, start, end) ==
    LET new == ChartInit(df, src, ticker, start, end)
    IN  /\ last = "idle"
        /\ last' = "init"
        /\ call' = [df |-> df, src |-> src, ticker |-> ticker,
                    start |-> start, end |-> end]
        /\ err' = new.err
        /\ ret' = IF new.err = "none" THEN <<new.chart>> ELSE <<>>
        /\ fig' = <<>>
        /\ val' = FALSE
        /\ warned' = FALSE
        /\ replaced' = <<>>
        /\ UNCHANGED <<ch, nadj>>

-----------------------------------------------------------------------------
(* Column-presence predicates *)

has_open(c) == InColumns(c.df, c.op)
has_high(c) == InColumns(c.df, c.hi)
has_low(c) == InColumns(c.df, c.lo)
has_close(c) == InColumns(c.df, c.cl)
has_adjusted_open(c) == InColumns(c.df, c.aop)
has_adjusted_high(c) == InColumns(c.df, c.ahi)
has_adjusted_low(c) == InColumns(c.df, c.alo)
has_adjusted_close(c) == InColumns(c.df, c.acl)
has_volume(c) == InColumns(c.df, c.vo)
has_dividend(c) == InColumns(c.df, c.di)

has_OHLC(c) ==
    LET cols == {c.op, c.hi, c.lo, c.cl}
    IN  SumIsin(c.df, cols) >= Cardinality(cols)

has_OHLCV(c) ==
    LET cols == {c.op, c.hi, c.lo, c.cl, c.vo}
    IN  SumIsin(c.df, cols) >= Cardinality(cols)

-----------------------------------------------------------------------------
(* adjust and adjust_volume *)

NaNCol(df) == [dtype |-> "float", vals |-> [i \in DOMAIN df.index |-> NaN]]

\* How pandas treats arithmetic on, and assignment of, a DataFrame selected by
\* a repeated label depends on its version: it raises, or it goes on with
\* unaligned (NaN) values.
LibOutcomes == {"raise", "nan"}

\* the ratio taken from the open column: self.df[self.op] / self.df[self.acl]
Ratio_FromOpen(c, lib) ==
    LET a == GetItem(c.df, c.op)
        b == GetItem(c.df, c.acl)
    IN  IF a = "KeyError" \/ b = "KeyError" THEN [err |-> "KeyError", vals |-> <<>>]
        ELSE IF a = "frame" \/ b = "frame"
        THEN IF lib = "raise" THEN [err |-> "ValueError", vals |-> <<>>]
             ELSE [err |-> "none", vals |-> NaNCol(c.df).vals]
        ELSE [err |-> "none",
              vals |-> [i \in DOMAIN c.df.index |->
                          Div(c.df.col[c.op].vals[i], c.df.col[c.acl].vals[i])]]

\* ratio = self.df[self.cl] / self.df[self.acl]
Ratio(c, lib) ==
    LET a == GetItem(c.df, c.cl)
        b == GetItem(c.df, c.acl)
    IN  IF a = "KeyError" \/ b = "KeyError" THEN [err |-> "KeyError", vals |-> <<>>]
        ELSE IF a = "frame" \/ b = "frame"
        THEN IF lib = "raise" THEN [err |-> "ValueError", vals |-> <<>>]
             ELSE [err |-> "none", vals |-> NaNCol(c.df).vals]
        ELSE [err |-> "none",
              vals |-> [i \in DOMAIN c.df.index |->
                          Div(c.df.col[c.cl].vals[i], c.df.col[c.acl].vals[i])]]

\* target[name] = source[name] / ratio for each name of names, in order; the
\* first failing statement ends the run and keeps what was assigned before it
RECURSIVE AssignDivided(_, _, _, _, _, _)
AssignDivided(target, source, sameObject, names, ratio, lib) ==
    IF names = <<>> THEN [err |-> "none", df |-> target]
    ELSE LET name == Head(names)
             from == IF sameObject THEN target ELSE source
             got == GetItem(from, name)
         IN  IF got = "KeyError" THEN [err |-> "KeyError", df |-> target]
             ELSE IF got = "frame" /\ lib = "raise"
             THEN [err |-> "ValueError", df |-> target]
             ELSE LET column == IF got = "frame" THEN NaNCol(from)
                                ELSE DivCol(from.col[name], ratio)
                      next == [target EXCEPT !.col[name] = column]
                  IN  AssignDivided(next, source, sameObject, Tail(names), ratio, lib)

\* the test of line 260 that raises "Insufficient data to adjust OHLC data."
AdjustGuard(c) == ~has_OHLC(c) /\ has_adjusted_close(c)

\* the test of line 290 that raises "Insufficient data to adjust volume."
AdjustVolumeGuard(c) == ~has_volume(c) /\ has_close(c) /\ has_adjusted_close(c)

\* the body both operations share: [err, df (the receiver's table after the
\* call), ret (the chart returned)]. The assignments go to self.df or to
\* df2; they reach the receiver's table when the target is that very object.
AdjustBody(c, guard, names, inplace, lib) ==
    IF guard THEN [err |-> "InsufficientData", df |-> c.df, ret |-> <<>>]
    ELSE LET r == Ratio(c, lib)
         IN  IF r.err # "none" THEN [err |-> r.err, df |-> c.df, ret |-> <<>>]
             ELSE LET target == IF inplace THEN c.df ELSE Copy(c.df)
                      same == target.obj = c.df.obj
                      a == AssignDivided(target, c.df, same, names, r.vals, lib)
                      after == IF same THEN a.df ELSE c.df
                  IN  IF inplace THEN [err |-> a.err, df |-> after, ret |-> <<>>]
                      ELSE IF a.err # "none"
                      THEN [err |-> a.err, df |-> after, ret |-> <<>>]
                      ELSE LET new == ChartInit(a.df, None, None, None, None)
                           IN  [err |-> new.err, df |-> after,
                                ret |-> IF new.err = "none" THEN <<new.chart>>
                                        ELSE <<>>]

NoCall == [none |-> TRUE]

Adjust(inplace, lib) ==
    LET r == AdjustBody(ch, AdjustGuard(ch), <<ch.op, ch.hi, ch.lo, ch.cl>>, inplace, lib)
    IN  /\ last = "idle"
        /\ inplace => nadj < MaxAdjust
        /\ nadj' = IF inplace THEN nadj + 1 ELSE nadj
        /\ ch' = [ch EXCEPT !.df = r.df]
        /\ last' = "adjust"
        /\ call' = [inplace |-> inplace]
        /\ err' = r.err
        /\ ret' = r.ret
        /\ fig' = <<>>
        /\ val' = FALSE
        /\ warned' = FALSE
        /\ replaced' = <<>>

AdjustVolume(inplace, lib) ==
    LET r == AdjustBody(ch, AdjustVolumeGuard(ch), <<ch.vo>>, inplace, lib)
    IN  /\ last = "idle"
        /\ inplace => nadj < MaxAdjust
        /\ nadj' = IF inplace THEN nadj + 1 ELSE nadj
        /\ ch' = [ch EXCEPT !.df = r.df]
        /\ last' = "adjust_volume"
        /\ call' = [inplace |-> inplace]
        /\ err' = r.err
        /\ ret' = r.ret
        /\ fig' = <<>>
        /\ val' = FALSE
        /\ warned' = FALSE
        /\ replaced' = <<>>

-----------------------------------------------------------------------------
(* Indicator registries: insertion-ordered dicts, and the indicator table *)

\* the position of key k in the ordered dict d, 0 when absent
RECURSIVE KeyPos(_, _)
KeyPos(d, k) ==
    IF d = <<>> THEN 0
    ELSE IF d[Len(d)].name = k THEN Len(d) ELSE KeyPos(SubSeq(d, 1, Len(d) - 1), k)

\* d[k] = v: a present key keeps its position, a new key goes last
DictSet(d, k, v) ==
    LET i == KeyPos(d, k)
        e == [name |-> k, v |-> v]
    IN  IF i = 0 THEN Append(d, e) ELSE [d EXCEPT ![i] = e]

\* d[k]
DictGet(d, k) == d[KeyPos(d, k)].v

\* the series ind holds under name, <<>> when it holds none
Replaced(ind, name) ==
    IF KeyPos(ind.col, name) = 0 THEN <<>> ELSE <<DictGet(ind.col, name)>>

\* self.ind[name] = series
IndSet(ind, name, series) == [ind EXCEPT !.col = DictSet(ind.col, name, series)]

\* the names indicators are registered under: "P1", "P2", ... in the primary
\* registry and "S1", "S2", ... in the secondary one; names are
\* interchangeable, so the k-th name a registry sees for the first time is
\* its k-th name
PriName(i) == "P" \o ToString(i)
SecName(i) == "S" \o ToString(i)
PriNames == {PriName(i) : i \in 1..MaxPri}
SecNames == {SecName(i) : i \in 1..MaxSec}

\* the series and the styles an indicator is registered with
SeriesSet == {<<10, 11>>, <<20, 21>>}
SecSeries == {<<50, 51>>}
\* fillcolor is <<>> when the style has no such key
PriStyles == {[type |-> "line", color |-> "secondary", fillcolor |-> <<>>]}
SecStyles == {[type |-> "area", color |-> "tertiary", fillcolor |-> <<"fill">>]}

\* an add_* method of the indicator library registering a primary indicator
AddPrimary(name, series, style) ==
    /\ last = "idle"
    /\ KeyPos(ch.pri, name) # 0
          \/ (Len(ch.pri) < MaxPri /\ name = PriName(Len(ch.pri) + 1))
    /\ ch' = [ch EXCEPT !.pri = DictSet(ch.pri, name, style),
                        !.ind = IndSet(ch.ind, name, series)]
    /\ last' = "add_primary"
    /\ call' = [name |-> name, series |-> series, style |-> style]
    /\ err' = "none"
    /\ fig' = <<>>
    /\ ret' = <<>>
    /\ val' = FALSE
    /\ warned' = FALSE
    /\ replaced' = Replaced(ch.ind, name)
    /\ UNCHANGED nadj

\* an add_* method of the indicator library registering a secondary indicator
AddSecondary(name, series, style) ==
    /\ last = "idle"
    /\ KeyPos(ch.sec, name) # 0
          \/ (Len(ch.sec) < MaxSec /\ name = SecName(Len(ch.sec) + 1))
    /\ ch' = [ch EXCEPT !.sec = DictSet(ch.sec, name, style),
                        !.ind = IndSet(ch.ind, name, series)]
    /\ last' = "add_secondary"
    /\ call' = [name |-> name, series |-> series, style |-> style]
    /\ err' = "none"
    /\ fig' = <<>>
    /\ ret' = <<>>
    /\ val' = FALSE
    /\ warned' = FALSE
    /\ replaced' = Replaced(ch.ind, name)
    /\ UNCHANGED nadj

-----------------------------------------------------------------------------
(* The theme template and the sets of names of quantmod.valid *)

OHLC_TRACES == {"ohlc", "candlestick"}

\* the kinds to_figure documents, as far as the model draws them
VALID_TRACES == {"ohlc", "candlestick", "line", "area", "scatter"}

VALID_FIGURE_KWARGS == {"kind", "showlegend", "figsize"}

\* the keys of template['traces']: a skeleton per kind, and the volume bars
TraceSkeletons == VALID_TRACES \cup {"bar"}

\* kind strings handed to to_figure that are no valid kind
BadKinds == {"pie", "line_foo"}

\* sub in s, for the strings of the model
Contains(sub, s) ==
    CASE sub = "line" -> s \in {"line", "line_dashed", "line_foo"}
      [] sub = "area" -> s \in {"area", "area_threshold"}
      [] sub = "scatter" -> s = "scatter"
      [] OTHER -> FALSE

\* template['layout'] of factory.get_template: the skeleton with the caller's
\* title, legend and dimensions merged in. Positions the theme supplies are
\* kept symbolic; legend.y is the offset, in hundredths, from the theme's value.
TemplateLayout(title, legend, dimensions) ==
    [title |-> title,
     showlegend |-> legend,
     legend |-> [x |-> "legend.x", xanchor |-> "legend.xanchor",
                 y |-> 0, yanchor |-> "legend.yanchor"],
     margin |-> [t |-> "margin.t", b |-> "margin.b"],
     dimensions |-> dimensions,
     yaxes |-> <<>>,
     annotations |-> <<>>]

-----------------------------------------------------------------------------
(* to_figure *)

Absent == <<"absent">>

\* the arguments of a call: type, volume, title, subtitle, legend, and the
\* keyword arguments kind, showlegend, figsize (Absent when not passed) with
\* other = TRUE when some further keyword is passed
NoKwargs == [kind |-> Absent, showlegend |-> Absent, figsize |-> Absent,
             other |-> FALSE]

\* lines 371-395: the keyword check and the renaming of kind, showlegend and
\* figsize
Kwargs(c) ==
    LET k == c.kwargs
    IN  IF k.other THEN [err |-> "InvalidKeyword", type |-> c.type,
                         legend |-> c.legend, dimensions |-> None]
        ELSE LET type == IF k.kind # Absent THEN k.kind ELSE c.type
                 legend == IF k.showlegend # Absent THEN k.showlegend ELSE c.legend
             IN  IF k.figsize = Absent
                 THEN [err |-> "none", type |-> type, legend |-> legend,
                       dimensions |-> None]
                 ELSE IF k.figsize[1] # "tuple"
                 THEN [err |-> "TypeError", type |-> type, legend |-> legend,
                       dimensions |-> None]
                 ELSE IF Len(k.figsize[2]) # 2
                 THEN [err |-> "InvalidFigsize", type |-> type, legend |-> legend,
                       dimensions |-> None]
                 ELSE [err |-> "none", type |-> type, legend |-> legend,
                       dimensions |->
                          <<"tuple", [i \in 1..2 |-> 80 * k.figsize[2][i]]>>]

\* lines 397-404: the default of type
DefaultType(c, type) ==
    IF IsNone(type)
    THEN IF has_OHLC(c) THEN [err |-> "none", v |-> PyStr("candlestick")]
         ELSE IF has_close(c) THEN [err |-> "none", v |-> PyStr("line")]
         ELSE [err |-> "InsufficientData", v |-> type]
    ELSE [err |-> "none", v |-> type]

\* lines 406-410: the default of volume
DefaultVolume(c, volume) ==
    IF IsNone(volume) THEN PyBool(has_volume(c)) ELSE volume

\* lines 412-416: the default of title; the code reads the name ticker, which
\* is neither a local nor a global of the module
DefaultTitle(c, title) ==
    IF IsNone(title)
    THEN IF Truthy(c.ticker) THEN [err |-> "NameError", v |-> title]
         ELSE [err |-> "none", v |-> PyStr("")]
    ELSE [err |-> "none", v |-> title]

\* lines 418-422: the defaults of subtitle and legend
DefaultTrue(x) == IF IsNone(x) THEN PyBool(TRUE) ELSE x

\* lines 424-452: the type checks; the tests of lines 429-442 follow a raise
\* and are never run
TypeChecks(type, volume, subtitle) ==
    IF ~IsStr(type) THEN "TypeError"
    ELSE IF ~IsBool(volume) THEN "TypeError"
    ELSE IF ~IsBool(subtitle) THEN "TypeError"
    ELSE "none"

\* self.df[name] bound to a field of a trace
Bind(df, name) == <<GetItem(df, name), df.col[name].vals>>

\* some df[name], name in names, raises
AnyMissing(df, names) == \E n \in names : GetItem(df, n) = "KeyError"

Trace(kind, x, y, name, yaxis, showlegend, colors) ==
    [type |-> kind, x |-> x, y |-> y, name |-> name, yaxis |-> yaxis,
     showlegend |-> showlegend, colors |-> colors]

NoTrace == Trace("", <<>>, <<>>, None, "", "", <<>>)

\* lines 470-539: the main trace
MainTrace(c, type, title) ==
    IF type \in OHLC_TRACES
    THEN IF AnyMissing(c.df, {c.op, c.hi, c.lo, c.cl})
         THEN [err |-> "KeyError", trace |-> NoTrace]
         ELSE [err |-> "none",
               trace |-> Trace(type, c.df.index,
                               <<Bind(c.df, c.op), Bind(c.df, c.hi),
                                 Bind(c.df, c.lo), Bind(c.df, c.cl)>>,
                               title, "y1", "False",
                               IF type = "candlestick"
                               THEN <<<<"increasing.fillcolor", "increasing">>,
                                      <<"increasing.line.color", "border">>,
                                      <<"decreasing.fillcolor", "decreasing">>,
                                      <<"decreasing.line.color", "border">>>>
                               ELSE <<<<"increasing.line.color", "increasing">>,
                                      <<"decreasing.line.color", "decreasing">>>>)]
    ELSE IF Contains("line", type) \/ Contains("area", type)
            \/ Contains("scatter", type)
    THEN IF type \notin TraceSkeletons \/ AnyMissing(c.df, {c.cl})
         THEN [err |-> "KeyError", trace |-> NoTrace]
         ELSE [err |-> "none",
               trace |-> Trace(type, c.df.index, <<Bind(c.df, c.cl)>>,
                               title, "y1", "False",
                               IF Contains("line", type) \/ Contains("area", type)
                               THEN <<<<"line.color", "primary">>>>
                               ELSE <<<<"scatter.color", "primary">>>>)]
    ELSE [err |-> "CannotPlot", trace |-> NoTrace]

\* lines 544-558 and 599-612: the trace of one registered indicator
IndicatorTrace(c, entry, yaxis) ==
    Trace(entry.v.type, c.ind.index, <<<<"series", DictGet(c.ind.col, entry.name)>>>>,
          PyStr(entry.name), yaxis, "default",
          <<<<"line.color", entry.v.color>>>>
            \o (IF Contains("area", entry.v.type) /\ entry.v.fillcolor # <<>>
                THEN <<<<"fillcolor", entry.v.fillcolor[1]>>>> ELSE <<>>))

\* the loop over self.pri stopping one entry early
PrimaryTraces_OffByOne(c) ==
    [i \in 1..(Len(c.pri) - 1) |-> IndicatorTrace(c, c.pri[i], "y1")]

\* lines 541-558: the traces of the primary indicators
PrimaryTraces(c) == [i \in 1..Len(c.pri) |-> IndicatorTrace(c, c.pri[i], "y1")]

\* lines 570-579: one colour per bar by the sign of close - open, or the
\* primary colour
VolumeColor(c, type) ==
    IF type \in OHLC_TRACES /\ has_open(c) /\ has_close(c)
    THEN IF GetItem(c.df, c.op) = "frame" \/ GetItem(c.df, c.cl) = "frame"
         THEN [err |-> "ValueError", v |-> <<>>]
         ELSE [err |-> "none",
               v |-> [i \in DOMAIN c.df.index |->
                        IF GeZero(Sub(c.df.col[c.cl].vals[i], c.df.col[c.op].vals[i]))
                        THEN "increasing" ELSE "decreasing"]]
    ELSE [err |-> "none", v |-> <<"primary">>]

\* lines 560-588: the volume bars
VolumeTrace(c, type) ==
    IF GetItem(c.df, c.vo) = "KeyError" THEN [err |-> "KeyError", trace |-> NoTrace]
    ELSE LET vc == VolumeColor(c, type)
         IN  IF vc.err # "none" THEN [err |-> vc.err, trace |-> NoTrace]
             ELSE [err |-> "none",
                   trace |-> Trace("bar", c.df.index, <<Bind(c.df, c.vo)>>,
                                   PyStr("Volume"), "y2", "False",
                                   <<<<"marker.color", vc.v>>,
                                     <<"marker.line.color",
                                       IF type = "candlestick" THEN <<"border">>
                                       ELSE vc.v>>>>)]

\* lines 590-594
Delta(volume) == IF volume THEN 1 ELSE 0

\* the secondary indicators numbered without the volume subplot
SecondaryTraces_NoDelta(c, delta) ==
    [i \in 1..Len(c.sec) |->
        IndicatorTrace(c, c.sec[i], "y" \o ToString((i - 1) + 2))]

\* lines 596-612: the traces of the secondary indicators
SecondaryTraces(c, delta) ==
    [i \in 1..Len(c.sec) |->
        IndicatorTrace(c, c.sec[i], "y" \o ToString((i - 1) + delta + 2))]

Axis(key, domain) == [key |-> key, domain |-> domain]

\* Axes counting the secondary indicators only, not the volume subplot
Axes_NoDelta(c, volume) ==
    LET n == Len(c.sec)
    IN  IF volume \/ c.sec # <<>>
        THEN IF n = 1
             THEN [yaxes |-> <<Axis("yaxis", <<30, 100>>), Axis("yaxis2", <<0, 25>>)>>,
                   warned |-> FALSE]
             ELSE IF n = 2
             THEN [yaxes |-> <<Axis("yaxis", <<50, 100>>), Axis("yaxis2", <<25, 45>>),
                               Axis("yaxis3", <<0, 20>>)>>,
                   warned |-> FALSE]
             ELSE [yaxes |-> <<Axis("yaxis", <<>>)>>, warned |-> TRUE]
        ELSE [yaxes |-> <<Axis("yaxis", <<>>)>>, warned |-> FALSE]

\* Axes with the domains of the two stacked axes exchanged
Axes_Swapped(c, volume) ==
    LET n == Len(c.sec) + Delta(volume)
    IN  IF volume \/ c.sec # <<>>
        THEN IF n = 1
             THEN [yaxes |-> <<Axis("yaxis", <<30, 100>>), Axis("yaxis2", <<0, 25>>)>>,
                   warned |-> FALSE]
             ELSE IF n = 2
             THEN [yaxes |-> <<Axis("yaxis", <<50, 100>>), Axis("yaxis2", <<0, 20>>),
                               Axis("yaxis3", <<25, 45>>)>>,
                   warned |-> FALSE]
             ELSE [yaxes |-> <<Axis("yaxis", <<>>)>>, warned |-> TRUE]
        ELSE [yaxes |-> <<Axis("yaxis", <<>>)>>, warned |-> FALSE]

\* lines 616-636: the y axes of the layout, domains in hundredths (<<>> when
\* no domain is set), and whether the 3+ message is printed
Axes(c, volume) ==
    LET n == Len(c.sec) + Delta(volume)
    IN  IF volume \/ c.sec # <<>>
        THEN IF n = 1
             THEN [yaxes |-> <<Axis("yaxis", <<30, 100>>), Axis("yaxis2", <<0, 25>>)>>,
                   warned |-> FALSE]
             ELSE IF n = 2
             THEN [yaxes |-> <<Axis("yaxis", <<50, 100>>), Axis("yaxis2", <<25, 45>>),
                               Axis("yaxis3", <<0, 20>>)>>,
                   warned |-> FALSE]
             ELSE [yaxes |-> <<Axis("yaxis", <<>>)>>, warned |-> TRUE]
        ELSE [yaxes |-> <<Axis("yaxis", <<>>)>>, warned |-> FALSE]

\* lines 638-640: without a title the top margin is the bottom margin
Margin(layout) ==
    IF ~Truthy(layout.title) THEN [layout EXCEPT !.margin.t = layout.margin.b]
    ELSE layout

\* lines 648-654: the colour of the subtitle
AnnotationsColor(c, type) ==
    IF type \in OHLC_TRACES
    THEN IF GetItem(c.df, c.cl) # "series" THEN [err |-> "KeyError", v |-> ""]
         ELSE IF GetItem(c.df, c.op) = "frame" THEN [err |-> "ValueError", v |-> ""]
         ELSE IF GetItem(c.df, c.op) = "KeyError" THEN [err |-> "KeyError", v |-> ""]
         ELSE [err |-> "none",
               v |-> IF GeZero(Sub(c.df.col[c.cl].vals[Len(c.df.index)],
                                   c.df.col[c.op].vals[Len(c.df.index)]))
                     THEN "increasing" ELSE "decreasing"]
    ELSE [err |-> "none", v |-> "primary"]

\* the domain of the axis named key, <<"KeyError">> when the layout has none
RECURSIVE AxisDomain(_, _)
AxisDomain(yaxes, key) ==
    IF yaxes = <<>> THEN <<"KeyError">>
    ELSE IF Head(yaxes).key = key THEN <<"ok", Head(yaxes).domain>>
    ELSE AxisDomain(Tail(yaxes), key)

Annotation(x, y, text, color) ==
    [x |-> x, y |-> y, text |-> text, color |-> color]

\* lines 642-682: the subtitle annotations and the legend moved down
Subtitle(c, layout, type, volume, subtitle) ==
    IF Truthy(layout.showlegend) /\ subtitle
    THEN LET ac == AnnotationsColor(c, type)
             n == Len(c.df.index)
         IN  IF ac.err # "none" THEN [err |-> ac.err, layout |-> layout]
             ELSE IF GetItem(c.df, c.cl) # "series"
             THEN [err |-> "KeyError", layout |-> layout]
             ELSE LET last_price ==
                          Annotation(layout.legend.x, <<"legend.y", layout.legend.y>>,
                                     "Last " \o FormatFixed2(c.df.col[c.cl].vals[n]),
                                     ac.v)
                      l1 == [layout EXCEPT
                               !.annotations = Append(layout.annotations, last_price),
                               !.legend.y = layout.legend.y - 3]
                  IN  IF volume
                      THEN LET d == AxisDomain(l1.yaxes, "yaxis2")
                           IN  IF d[1] = "KeyError" \/ GetItem(c.df, c.vo) # "series"
                               THEN [err |-> "KeyError", layout |-> l1]
                               ELSE IF d[2] = <<>>
                               THEN [err |-> "KeyError", layout |-> l1]
                               ELSE LET last_volume ==
                                          Annotation(l1.legend.x,
                                                     <<"paper", d[2][Len(d[2])] - 1>>,
                                                     "Volume " \o
                                                       FormatComma(c.df.col[c.vo].dtype,
                                                                   c.df.col[c.vo].vals[n]),
                                                     ac.v)
                                    IN  [err |-> "none",
                                         layout |-> [l1 EXCEPT !.annotations =
                                                       Append(l1.annotations,
                                                              last_volume)]]
                      ELSE [err |-> "none", layout |-> l1]
    ELSE [err |-> "none", layout |-> layout]

Failed(e) == [err |-> e, fig |-> <<>>, warned |-> FALSE]

\* the assembly appending the volume bars after the secondary indicators
Assemble_VolumeLast(c, type, volume, title, subtitle, legend, dimensions) ==
    LET main == MainTrace(c, type, title)
    IN  IF main.err # "none" THEN Failed(main.err)
        ELSE LET vol == IF volume THEN VolumeTrace(c, type)
                        ELSE [err |-> "none", trace |-> NoTrace]
             IN  IF vol.err # "none" THEN Failed(vol.err)
                 ELSE LET data == <<main.trace>> \o PrimaryTraces(c)
                                    \o SecondaryTraces(c, Delta(volume))
                                    \o (IF volume THEN <<vol.trace>> ELSE <<>>)
                          ax == Axes(c, volume)
                          l0 == [TemplateLayout(title, legend, dimensions)
                                   EXCEPT !.yaxes = ax.yaxes]
                          sub == Subtitle(c, Margin(l0), type, volume, subtitle)
                      IN  IF sub.err # "none"
                          THEN [Failed(sub.err) EXCEPT !.warned = ax.warned]
                          ELSE [err |-> "none",
                                fig |-> <<[data |-> data, layout |-> sub.layout]>>,
                                warned |-> ax.warned]

\* lines 454-685, with the arguments resolved: the figure assembled
Assemble(c, type, volume, title, subtitle, legend, dimensions) ==
    LET main == MainTrace(c, type, title)
    IN  IF main.err # "none" THEN Failed(main.err)
        ELSE LET vol == IF volume THEN VolumeTrace(c, type)
                        ELSE [err |-> "none", trace |-> NoTrace]
             IN  IF vol.err # "none" THEN Failed(vol.err)
                 ELSE LET data == <<main.trace>> \o PrimaryTraces(c)
                                    \o (IF volume THEN <<vol.trace>> ELSE <<>>)
                                    \o SecondaryTraces(c, Delta(volume))
                          ax == Axes(c, volume)
                          l0 == [TemplateLayout(title, legend, dimensions)
                                   EXCEPT !.yaxes = ax.yaxes]
                          sub == Subtitle(c, Margin(l0), type, volume, subtitle)
                      IN  IF sub.err # "none"
                          THEN [Failed(sub.err) EXCEPT !.warned = ax.warned]
                          ELSE [err |-> "none",
                                fig |-> <<[data |-> data, layout |-> sub.layout]>>,
                                warned |-> ax.warned]

\* Chart.to_figure: [err, fig (<<figure>> when one is returned), warned]
to_figure(c, a) ==
    LET k == Kwargs(a)
    IN  IF k.err # "none" THEN Failed(k.err)
        ELSE LET type == DefaultType(c, k.type)
             IN  IF type.err # "none" THEN Failed(type.err)
                 ELSE LET volume == DefaultVolume(c, a.volume)
                          title == DefaultTitle(c, a.title)
                          subtitle == DefaultTrue(a.subtitle)
                          legend == DefaultTrue(k.legend)
                      IN  IF title.err # "none" THEN Failed(title.err)
                          ELSE IF TypeChecks(type.v, volume, subtitle) # "none"
                          THEN Failed(TypeChecks(type.v, volume, subtitle))
                          ELSE Assemble(c, type.v[2], volume[2], title.v,
                                        subtitle[2], legend, k.dimensions)

\* to_figure taking the secondary registry apart as it draws it
ToFigure_Consuming(a) ==
    LET r == to_figure(ch, a)
    IN  /\ last = "idle"
        /\ last' = "to_figure"
        /\ call' = a
        /\ err' = r.err
        /\ fig' = r.fig
        /\ warned' = r.warned
        /\ ret' = <<>>
        /\ val' = FALSE
        /\ replaced' = <<>>
        /\ ch' = [ch EXCEPT !.sec = <<>>]
        /\ UNCHANGED nadj

ToFigure(a) ==
    LET r == to_figure(ch, a)
    IN  /\ last = "idle"
        /\ last' = "to_figure"
        /\ call' = a
        /\ err' = r.err
        /\ fig' = r.fig
        /\ warned' = r.warned
        /\ ret' = <<>>
        /\ val' = FALSE
        /\ replaced' = <<>>
        /\ UNCHANGED <<ch, nadj>>

-----------------------------------------------------------------------------
(* Reading a column-presence property *)

Property(name, value) ==
    /\ last = "idle"
    /\ last' = name
    /\ val' = value
    /\ call' = NoCall
    /\ err' = "none"
    /\ fig' = <<>>
    /\ ret' = <<>>
    /\ warned' = FALSE
    /\ replaced' = <<>>
    /\ UNCHANGED <<ch, nadj>>

HasOpen == Property("has_open", has_open(ch))
HasHigh == Property("has_high", has_high(ch))
HasLow == Property("has_low", has_low(ch))
HasClose == Property("has_close", has_close(ch))
HasAdjustedOpen == Property("has_adjusted_open", has_adjusted_open(ch))
HasAdjustedHigh == Property("has_adjusted_high", has_adjusted_high(ch))
HasAdjustedLow == Property("has_adjusted_low", has_adjusted_low(ch))
HasAdjustedClose == Property("has_adjusted_close", has_adjusted_close(ch))
HasVolume == Property("has_volume", has_volume(ch))
HasDividend == Property("has_dividend", has_dividend(ch))
HasOHLC == Property("has_OHLC", has_OHLC(ch))
HasOHLCV == Property("has_OHLCV", has_OHLCV(ch))

\* the caller takes the outcome of the operation that has just ended
Return ==
    /\ last # "idle"
    /\ last' = "idle"
    /\ call' = NoCall
    /\ err' = "none"
    /\ fig' = <<>>
    /\ ret' = <<>>
    /\ val' = FALSE
    /\ warned' = FALSE
    /\ replaced' = <<>>
    /\ UNCHANGED <<ch, nadj>>

-----------------------------------------------------------------------------
(* Specifications *)

\* the state right after Chart(df, src, ticker) returned a chart
Constructed(dfs, srcs, tickers) ==
    /\ \E df \in dfs, src \in srcs, ticker \in tickers :
          LET new == ChartInit(df, src, ticker, None, None)
          IN  new.err = "none" /\ ch = new.chart
    /\ last = "idle"
    /\ call = NoCall
    /\ err = "none"
    /\ fig = <<>>
    /\ ret = <<>>
    /\ val = FALSE
    /\ warned = FALSE
    /\ replaced = <<>>
    /\ nadj = 0

AllSrcs == {None, PyStr("yahoo"), PyDict(AdjDict), PyDict(CloseDict)}

\* every table of at most MaxDup columns per label
AllTables == {Table(m, DataA) : m \in [ColNames -> 0..MaxDup]}

\* The column mapper, the presence predicates and the adjustment engine, over
\* every table and mapping.
InitCols == Constructed(AllTables, AllSrcs, {None})

NextCols ==
    \/ HasOpen \/ HasHigh \/ HasLow \/ HasClose
    \/ HasAdjustedOpen \/ HasAdjustedHigh \/ HasAdjustedLow \/ HasAdjustedClose
    \/ HasVolume \/ HasDividend \/ HasOHLC \/ HasOHLCV
    \/ \E inplace \in BOOLEAN, lib \in LibOutcomes : Adjust(inplace, lib)
    \/ \E inplace \in BOOLEAN, lib \in LibOutcomes : AdjustVolume(inplace, lib)
    \/ Return

SpecCols == InitCols /\ [][NextCols]_vars

\* The figure assembler over every table: calls with every kind of argument,
\* on charts without indicators.
KindTables ==
    {Table(m, DataA) : m \in {f \in [ColNames -> 0..MaxDup] : f["Adj Close"] = 0}}

Types == {None, PyInt(5)} \cup {PyStr(k) : k \in VALID_TRACES \cup BadKinds}
Volumes == {None, PyBool(TRUE), PyBool(FALSE), PyStr("yes")}
Titles == {None, PyStr("T")}
Subtitles == {None, PyBool(TRUE), PyBool(FALSE), PyInt(1)}
Legends == {None, PyBool(TRUE), PyBool(FALSE)}

CallOf(type, volume, title, subtitle, legend, kwargs) ==
    [type |-> type, volume |-> volume, title |-> title, subtitle |-> subtitle,
     legend |-> legend, kwargs |-> kwargs]

PlainCalls ==
    {CallOf(t, v, ti, s, l, NoKwargs) :
        t \in Types, v \in Volumes, ti \in Titles, s \in Subtitles, l \in Legends}

KwargsSet ==
    {[NoKwargs EXCEPT !.kind = PyStr("line")],
     [NoKwargs EXCEPT !.kind = PyStr("ohlc")],
     [NoKwargs EXCEPT !.kind = None],
     [NoKwargs EXCEPT !.showlegend = PyBool(FALSE)],
     [NoKwargs EXCEPT !.figsize = <<"tuple", <<10, 5>>>>],
     [NoKwargs EXCEPT !.figsize = <<"tuple", <<1, 2, 3>>>>],
     [NoKwargs EXCEPT !.figsize = <<"int", 5>>],
     [NoKwargs EXCEPT !.other = TRUE]}

KeywordCalls ==
    {CallOf(t, None, None, None, None, k) :
        t \in {None, PyStr("candlestick"), PyStr("area")}, k \in KwargsSet}

InitKind == Constructed(KindTables, {None}, {None, PyStr("AAPL")})

NextKind ==
    \/ \E a \in PlainCalls \cup KeywordCalls : ToFigure(a)
    \/ Return

SpecKind == InitKind /\ [][NextKind]_vars

\* The series store and the figure assembler: indicators are registered and
\* figures are assembled, from tables with one column per label.
FullTable(d) == Table([n \in ColNames |-> 1], d)
Without(names, d) == Table([n \in ColNames |-> IF n \in names THEN 0 ELSE 1], d)

Tables ==
    {FullTable(DataA), FullTable(DataB), Without({"Adj Close"}, DataA),
     Without({"Volume"}, DataA),
     Without({"Open", "High", "Low"}, DataA)}

Calls ==
    {CallOf(t, v, None, s, l, NoKwargs) :
        t \in {None, PyStr("line"), PyStr("ohlc")},
        v \in {None, PyBool(TRUE), PyBool(FALSE)},
        s \in {None, PyBool(FALSE)},
        l \in {None, PyBool(FALSE)}}
    \cup {CallOf(t, None, PyStr("T"), None, None, NoKwargs) :
             t \in {None, PyStr("line"), PyStr("ohlc")}}

Init == Constructed(Tables, {None}, {None})

Next ==
    \/ \E name \in PriNames, series \in SeriesSet, style \in PriStyles :
          AddPrimary(name, series, style)
    \/ \E name \in SecNames, series \in SecSeries, style \in SecStyles :
          AddSecondary(name, series, style)
    \/ \E a \in Calls : ToFigure(a)
    \/ Return

Spec == Init /\ [][Next]_vars

\* The constructor over the values a caller may pass.
EmptyTable ==
    [index |-> <<>>, mult |-> [n \in ColNames |-> 0],
     col |-> [n \in ColNames |-> NoCol], obj |-> 0]

InitTables == {FullTable(DataA), EmptyTable}
InitSrcs == {None, PyStr("yahoo"), PyDict(AdjDict), PyInt(5)}
InitTickers == {None, PyBool(FALSE), PyStr("AAPL"), PyInt(5)}
Boundaries ==
    {None, PyBool(FALSE), PyStr("2017-01-02"), PyDatetime(1), PyInt(5), PyInt(0)}

InitInit == Constructed({FullTable(DataA)}, {None}, {None})

NextInit ==
    \/ \E df \in InitTables, src \in InitSrcs, ticker \in InitTickers,
          start \in Boundaries, end \in Boundaries :
          Construct(df, src, ticker, start, end)
    \/ Return

SpecInit == InitInit /\ [][NextInit]_vars

\* The adjustment engine on charts that carry indicators and a ticker: a
\* table whose close equals its adjusted close, one with a zero adjusted
\* close, one with a repeated label, and tables lacking a column.
DataC == [DataA EXCEPT !["Adj Close"] = DataA["Close"]]

AdjustTables ==
    {FullTable(DataA), FullTable(DataB), FullTable(DataC),
     Table([n \in ColNames |-> IF n = "Open" THEN 2 ELSE 1], DataC),
     Without({"Adj Close"}, DataA),
     Without({"Open"}, DataA)}

\* the default mapping, one whose close is the adjusted close, and one whose
\* open is the high column
AdjustSrcs == {None, PyStr("yahoo"), PyDict(AdjDict), PyDict(HighDict)}

InitAdjust == Constructed(AdjustTables, AdjustSrcs, {None, PyStr("AAPL")})

NextAdjust ==
    \/ \E series \in SeriesSet, style \in PriStyles :
          AddPrimary(PriName(1), series, style)
    \/ \E series \in SecSeries, style \in SecStyles :
          AddSecondary(SecName(1), series, style)
    \/ \E inplace \in BOOLEAN, lib \in LibOutcomes : Adjust(inplace, lib)
    \/ \E inplace \in BOOLEAN, lib \in LibOutcomes : AdjustVolume(inplace, lib)
    \/ Return

SpecAdjust == InitAdjust /\ [][NextAdjust]_vars

-----------------------------------------------------------------------------
(* Claims *)

\* every name of names is the label of a column of the chart's table
AllPresent(c, names) == \A n \in names : InColumns(c.df, n)

\* to_figure has just returned a figure
Returned == last = "to_figure" /\ err = "none" /\ fig # <<>>

\* the call that has just ended drew the volume subplot
VolumeOn == DefaultVolume(ch, call.volume) = PyBool(TRUE)

\* the number of stacked series of the call that has just ended
Stacked == Len(ch.sec) + (IF VolumeOn THEN 1 ELSE 0)

Domain(key) == AxisDomain(fig[1].layout.yaxes, key)

\* C1: when exactly one stacked series is drawn the returned layout has
\* 'yaxis' with domain [0.30, 1.0] and 'yaxis2' with domain [0.0, 0.25]; when
\* exactly two are drawn it has 'yaxis' [0.5, 1.0], 'yaxis2' [0.25, 0.45] and
\* 'yaxis3' [0.0, 0.20].
C1_AxisDomains ==
    Returned =>
       /\ Stacked = 1 =>
             /\ Domain("yaxis") = <<"ok", <<30, 100>>>>
             /\ Domain("yaxis2") = <<"ok", <<0, 25>>>>
       /\ Stacked = 2 =>
             /\ Domain("yaxis") = <<"ok", <<50, 100>>>>
             /\ Domain("yaxis2") = <<"ok", <<25, 45>>>>
             /\ Domain("yaxis3") = <<"ok", <<0, 20>>>>

\* a figure returned with two secondary indicators and no volume subplot
C1_Witness == Returned /\ ~VolumeOn /\ Len(ch.sec) = 2

ThreeAxes ==
    <<Axis("yaxis", <<50, 100>>), Axis("yaxis2", <<25, 45>>), Axis("yaxis3", <<0, 20>>)>>

\* C2 as stated: with volume enabled and exactly 2 secondary indicators the
\* returned layout contains exactly three y-axes, with domains [0.5, 1.0],
\* [0.25, 0.45] and [0.0, 0.20].
C2_Original ==
    (Returned /\ VolumeOn /\ Len(ch.sec) = 2) => fig[1].layout.yaxes = ThreeAxes

\* C2 as amended: with volume enabled and exactly 1 secondary indicator the
\* returned layout contains exactly three y-axes, with domains [0.5, 1.0],
\* [0.25, 0.45] and [0.0, 0.20]; with volume enabled and exactly 2 secondary
\* indicators a returned layout contains the price axis alone, without a
\* domain, and the 3+ indicators message has been printed.
C2_Amended ==
    (Returned /\ VolumeOn) =>
       /\ Len(ch.sec) = 1 => fig[1].layout.yaxes = ThreeAxes
       /\ Len(ch.sec) = 2 =>
             /\ fig[1].layout.yaxes = <<Axis("yaxis", <<>>)>>
             /\ warned

\* a figure returned with the volume subplot and one secondary indicator
C2_Witness == Returned /\ VolumeOn /\ Len(ch.sec) = 1

\* the call that has just ended, made on the chart without its secondary
\* indicators
WithoutSecondary == to_figure([ch EXCEPT !.sec = <<>>], call)

\* C3: with three or more stacked series, a call that is valid otherwise only
\* prints a warning and still returns a figure.
C3_WarnsAndReturns ==
    (last = "to_figure" /\ Stacked >= 3 /\ WithoutSecondary.err = "none")
       => (err = "none" /\ fig # <<>> /\ warned)

\* C4: adjust ends in the insufficient-data error exactly when one of open,
\* high, low, close, adjusted close is absent, and adjust_volume exactly when
\* one of close, volume, adjusted close is absent.
C4_InsufficientIff ==
    /\ last = "adjust" =>
          (err = "InsufficientData"
             <=> ~AllPresent(ch, {ch.op, ch.hi, ch.lo, ch.cl, ch.acl}))
    /\ last = "adjust_volume" =>
          (err = "InsufficientData" <=> ~AllPresent(ch, {ch.cl, ch.vo, ch.acl}))

\* the kind is passed as the type argument, a string, and the default of
\* title does not end the call before the kind is looked at
ExplicitKind ==
    /\ last = "to_figure"
    /\ call.kwargs = NoKwargs
    /\ IsStr(call.type)
    /\ ~IsNone(call.title) \/ ~Truthy(ch.ticker)

\* C5: to_figure with an explicit kind fails with the insufficient-data /
\* unsupported-option error and returns no figure when the kind is no valid
\* kind, when it is ohlc or candlestick and one of open, high, low, close is
\* absent, and when it is another valid kind and close is absent.
C5_KindValidation ==
    ExplicitKind =>
       LET kind == call.type[2]
           bad == \/ kind \notin VALID_TRACES
                  \/ kind \in OHLC_TRACES
                       /\ ~AllPresent(ch, {ch.op, ch.hi, ch.lo, ch.cl})
                  \/ kind \notin OHLC_TRACES /\ ~InColumns(ch.df, ch.cl)
       IN  bad => (err \in {"InsufficientData", "CannotPlot"} /\ fig = <<>>)

\* the call with every argument left unset
IsDefaultCall(a) ==
    /\ IsNone(a.type) /\ IsNone(a.volume) /\ IsNone(a.subtitle) /\ IsNone(a.legend)
    /\ a.kwargs = NoKwargs

\* the chart of the end-to-end scenario: open, high, low, close and volume,
\* the default mapping, no indicator
ScenarioChart ==
    /\ ch.df = Without({"Adj Close"}, DataA)
    /\ <<ch.op, ch.hi, ch.lo, ch.cl, ch.vo>> = <<Yahoo.op, Yahoo.hi, Yahoo.lo, Yahoo.cl, Yahoo.vo>>
    /\ ch.pri = <<>>
    /\ ch.sec = <<>>

\* C6: on the two-row table open = [10, 11], high = [12, 12], low = [9, 10],
\* close = [11, 10], volume = [1000, 1500] with kind and volume unset, the
\* figure has exactly 2 traces, a candlestick and then the volume bars, the
\* price axis has domain [0.30, 1.0], the volume axis [0.0, 0.25], and the
\* annotations read 'Last 10.00' and 'Volume 1,500'.
C6_EndToEnd ==
    (last = "to_figure" /\ ScenarioChart /\ IsDefaultCall(call)) =>
       /\ err = "none"
       /\ fig # <<>>
       /\ Len(fig[1].data) = 2
       /\ fig[1].data[1].type = "candlestick"
       /\ fig[1].data[2].type = "bar"
       /\ fig[1].data[2].yaxis = "y2"
       /\ fig[1].layout.yaxes = <<Axis("yaxis", <<30, 100>>), Axis("yaxis2", <<0, 25>>)>>
       /\ [i \in 1..Len(fig[1].layout.annotations) |-> fig[1].layout.annotations[i].text]
             = <<"Last 10.00", "Volume 1,500">>

\* the scenario has been run
C6_Witness == Returned /\ ScenarioChart /\ IsDefaultCall(call)

\* the positions of the traces of data called name
Named(data, name) == {j \in DOMAIN data : data[j].name = PyStr(name)}

\* the names of the primary registry
PrimaryNames(c) == {c.pri[i].name : i \in DOMAIN c.pri}

\* C7: after a registration of a primary indicator, every figure to_figure
\* returns has exactly one trace per registered primary name, and the trace of
\* the name registered last (also when it was registered before with another
\* series) has the series of that registration as its y data.
C7_OneTracePerPrimary ==
    last = "add_primary" =>
       \A a \in Calls :
          LET r == to_figure(ch, a)
          IN  r.err = "none" =>
                 LET data == r.fig[1].data
                 IN  /\ \A n \in PrimaryNames(ch) : Cardinality(Named(data, n)) = 1
                     /\ \A j \in Named(data, call.name) :
                           data[j].y = <<<<"series", call.series>>>>

\* a primary name has been registered again with another series, and
\* to_figure returns a figure for the chart
C7_Witness ==
    /\ last = "add_primary"
    /\ replaced # <<>>
    /\ replaced[1] # call.series
    /\ \E a \in Calls : to_figure(ch, a).err = "none"

\* C8: has_OHLC is true iff each of the four resolved names for open, high,
\* low and close is a column of the table, and has_OHLCV is true iff has_OHLC
\* holds and the resolved volume name is also a column.
C8_PresenceIff ==
    /\ last = "has_OHLC" => (val <=> AllPresent(ch, {ch.op, ch.hi, ch.lo, ch.cl}))
    /\ last = "has_OHLCV" => (val <=> (has_OHLC(ch) /\ InColumns(ch.df, ch.vo)))

\* the kind of the main trace of the figure returned
MainKind == fig[1].data[1].type

\* C9: with the kind unset the main trace is a candlestick if the table has
\* all of open, high, low, close, otherwise a line if it has close, and
\* otherwise the call fails with the insufficient-data error and returns no
\* figure; a kind that is given is the kind of the main trace.
C9_DefaultKind ==
    (last = "to_figure" /\ call.kwargs = NoKwargs) =>
       LET ohlc == AllPresent(ch, {ch.op, ch.hi, ch.lo, ch.cl})
           close == InColumns(ch.df, ch.cl)
       IN  /\ (IsNone(call.type) /\ ohlc /\ fig # <<>>) => MainKind = "candlestick"
           /\ (IsNone(call.type) /\ ~ohlc /\ close /\ fig # <<>>) => MainKind = "line"
           /\ (IsNone(call.type) /\ ~ohlc /\ ~close)
                 => (err = "InsufficientData" /\ fig = <<>>)
           /\ (IsStr(call.type) /\ fig # <<>>) => MainKind = call.type[2]

\* the title the chart's ticker gives: the label, or the empty string
TickerTitle == IF Truthy(ch.ticker) THEN ch.ticker ELSE PyStr("")

\* C10: with title unset, a call that succeeds when a title is given succeeds
\* too and uses the ticker label, or the empty string when the chart has none,
\* as the title and as the name of the main trace.
C10_DefaultTitle ==
    (/\ last = "to_figure"
     /\ IsNone(call.title)
     /\ to_figure(ch, [call EXCEPT !.title = PyStr("T")]).err = "none")
       => /\ err = "none"
          /\ fig # <<>>
          /\ fig[1].layout.title = TickerTitle
          /\ fig[1].data[1].name = TickerTitle

\* the labels the operation that ends in the next state assigns to
AssignedLabels ==
    IF last' = "adjust" THEN {ch.op, ch.hi, ch.lo, ch.cl} ELSE {ch.vo}

\* the content of df apart from the columns labelled names
Outside(df, names) ==
    [index |-> df.index, mult |-> df.mult,
     col |-> [n \in ColNames \ names |-> df.col[n]]]

C11_Step ==
    last' \in {"adjust", "adjust_volume"} =>
       /\ [ch' EXCEPT !.df = ch.df] = ch
       /\ ~call'.inplace =>
             /\ ch'.df = ch.df
             /\ err' = "none" =>
                   /\ ret' # <<>>
                   /\ ret'[1].df.obj # ch.df.obj
                   /\ Outside(ret'[1].df, AssignedLabels) = Outside(ch.df, AssignedLabels)
       /\ call'.inplace =>
             /\ ret' = <<>>
             /\ ch'.df.obj = ch.df.obj
             /\ Outside(ch'.df, AssignedLabels) = Outside(ch.df, AssignedLabels)

\* C11: adjust and adjust_volume with inplace=False leave the receiver's
\* table, mapping, registries and metadata unchanged and return a new chart
\* whose table is another object, a copy of the receiver's apart from the
\* adjusted columns; with inplace=True they return nothing and change only
\* the open, high, low, close columns (adjust) or the volume column
\* (adjust_volume) of the receiver's table.
C11_FrameEffects == [][C11_Step]_vars

\* a chart with a ticker and indicators, adjusted in place before, has just
\* returned an adjusted copy
C11_Witness ==
    /\ last = "adjust_volume"
    /\ ~call.inplace
    /\ ret # <<>>
    /\ nadj > 0
    /\ ch.pri # <<>>
    /\ ch.sec # <<>>
    /\ Truthy(ch.ticker)

\* the labels adjust divides, and those it reads
PriceLabels(c) == {c.op, c.hi, c.lo, c.cl}
AdjustLabels(c) == PriceLabels(c) \cup {c.acl}

\* close equals adjusted close in every row
CloseIsAdjusted(c) == c.df.col[c.cl].vals = c.df.col[c.acl].vals

\* every label adjust reads is the label of exactly one column
SingleColumns(c) == \A n \in AdjustLabels(c) : Mult(c.df, n) = 1

\* close is a finite number other than zero in every row
NonZeroClose(c) ==
    \A i \in DOMAIN c.df.col[c.cl].vals :
       c.df.col[c.cl].vals[i][1] = "num" /\ c.df.col[c.cl].vals[i][2] # 0

\* the table the adjust step ending in the next state has adjusted
AdjustedTable == IF call'.inplace THEN ch'.df ELSE ret'[1].df

\* the adjust step ending in the next state succeeded and kept the values of
\* the open, high, low and close columns
KeepsPrices ==
    /\ err' = "none"
    /\ \A n \in PriceLabels(ch) : AdjustedTable.col[n].vals = ch.df.col[n].vals

C12_OriginalStep ==
    (last' = "adjust" /\ AllPresent(ch, AdjustLabels(ch)) /\ CloseIsAdjusted(ch))
       => KeepsPrices

\* C12 as stated: on every table with open, high, low, close and adjusted
\* close whose close equals the adjusted close in every row, adjust (in place
\* or on a copy) yields open, high, low and close values equal to the
\* original ones, so that a second application in place changes nothing.
C12_Original == [][C12_OriginalStep]_vars

C12_AmendedStep ==
    (/\ last' = "adjust"
     /\ SingleColumns(ch)
     /\ CloseIsAdjusted(ch)
     /\ NonZeroClose(ch))
       => /\ KeepsPrices
          /\ (call'.inplace /\ \A n \in PriceLabels(ch) : ch.df.col[n].dtype = "float")
                => ch'.df = ch.df

\* C12 as amended: on every table in which each of the open, high, low,
\* close and adjusted close labels names exactly one column and the close
\* equals the adjusted close and is a finite number other than zero in every
\* row, adjust (in place or on a copy) yields open, high, low and close
\* values equal to the original ones; applied in place to a table a first
\* application has made floating point, it changes nothing.
C12_Amended == [][C12_AmendedStep]_vars

\* adjust has been applied in place twice, and nothing else was, to a table
\* whose close equals its adjusted close
C12_Witness ==
    /\ last = "adjust"
    /\ call.inplace
    /\ err = "none"
    /\ nadj = 2
    /\ SingleColumns(ch)
    /\ CloseIsAdjusted(ch)
    /\ NonZeroClose(ch)
    /\ InColumns(ch.df, ch.vo)
    /\ ch.df.col[ch.vo].dtype = "int"

\* C13: every call to to_figure, whether it returns a figure or ends in an
\* error, leaves the chart state unchanged: the price table, the indicator
\* table, the two registries, the column mapping and ticker, start and end
\* are the same after the call as before it.
C13_ToFigureKeepsChart == [][last' = "to_figure" => ch' = ch]_vars

\* to_figure has ended in an error on a chart that holds indicators of both
\* registries
C13_Witness ==
    /\ last = "to_figure"
    /\ err # "none"
    /\ ch.pri # <<>>
    /\ ch.sec # <<>>

\* the boundary values the constructor documents: a string, a datetime
\* object, or False
Documented(b) == IsStr(b) \/ b[1] = "datetime" \/ b = PyBool(FALSE)

\* a boundary the constructor is to take: a documented value, or none given
\* for a table that has rows
Taken(b, df) == Documented(b) \/ (IsNone(b) /\ df.index # <<>>)

\* the boundary the chart is to hold: the value given, or row i of the index
Stored(b, df, i) == IF IsNone(b) THEN <<"stamp", df.index[i]>> ELSE b

\* C14: construction accepts a start, and likewise an end, that is a string,
\* a datetime object or False and stores it as given; a boundary that is not
\* supplied is set to the first, respectively last, element of the table
\* index; a boundary of any other type is rejected with a TypeError.
C14_Boundaries ==
    (/\ last = "init"
     /\ ResolveSrc(call.src).err = "none"
     /\ ResolveTicker(call.ticker).err = "none")
       => /\ (Taken(call.start, call.df) /\ Taken(call.end, call.df))
                => /\ err = "none"
                   /\ ret # <<>>
                   /\ ret[1].start = Stored(call.start, call.df, 1)
                   /\ ret[1].end = Stored(call.end, call.df, Len(call.df.index))
          /\ (~Documented(call.start) /\ ~IsNone(call.start))
                => (err = "TypeError" /\ ret = <<>>)
          /\ (Taken(call.start, call.df) /\ ~Documented(call.end) /\ ~IsNone(call.end))
                => (err = "TypeError" /\ ret = <<>>)

\* the names of the entries of a registry, in the order of the registry
Names(reg) == [i \in DOMAIN reg |-> PyStr(reg[i].name)]

\* the names of the traces in positions from..to of data
TraceNames(data, from, to) == [i \in 1..(to - from + 1) |-> data[from + i - 1].name]

\* C15: the trace list of a figure to_figure returns is, in this order, the
\* main trace, one trace per primary indicator in registration order, the
\* volume bars if and only if volume is enabled, and one trace per secondary
\* indicator in registration order; its length is 1 + the number of primary
\* indicators + (1 if volume is enabled) + the number of secondary indicators.
C15_TraceOrder ==
    Returned =>
       LET data == fig[1].data
           np == Len(ch.pri)
           ns == Len(ch.sec)
           d == IF VolumeOn THEN 1 ELSE 0
       IN  /\ Len(data) = 1 + np + d + ns
           /\ data[1].name = fig[1].layout.title
           /\ data[1].yaxis = "y1"
           /\ data[1].type \in VALID_TRACES
           /\ TraceNames(data, 2, 1 + np) = Names(ch.pri)
           /\ VolumeOn => (data[2 + np].type = "bar" /\ data[2 + np].name = PyStr("Volume"))
           /\ ~VolumeOn => \A j \in DOMAIN data : data[j].type # "bar"
           /\ TraceNames(data, 2 + np + d, 1 + np + d + ns) = Names(ch.sec)

\* a figure returned with the volume bars, two primary indicators and a
\* secondary one
C15_Witness == Returned /\ VolumeOn /\ Len(ch.pri) = 2 /\ Len(ch.sec) = 1

\* the axis id of the trace of data named name
AxisOf(data, name) == data[CHOOSE j \in Named(data, name) : TRUE].yaxis

\* C16: in every figure to_figure returns, the i-th secondary indicator in
\* registration order (i from 0) is drawn on axis 'y' followed by
\* i + delta + 2, delta being 1 if volume is enabled and 0 otherwise; the
\* axis ids of the secondary traces are pairwise distinct, differ from 'y1',
\* and differ from the 'y2' of the volume trace when volume is enabled.
C16_SecondaryAxes ==
    Returned =>
       LET data == fig[1].data
           delta == IF VolumeOn THEN 1 ELSE 0
           id(i) == AxisOf(data, ch.sec[i].name)
       IN  /\ \A i \in DOMAIN ch.sec :
                /\ Cardinality(Named(data, ch.sec[i].name)) = 1
                /\ id(i) = "y" \o ToString((i - 1) + delta + 2)
                /\ id(i) # "y1"
                /\ VolumeOn => id(i) # "y2"
           /\ \A i, k \in DOMAIN ch.sec : i # k => id(i) # id(k)
           /\ VolumeOn => AxisOf(data, "Volume") = "y2"

\* a figure returned with the volume bars and two secondary indicators
C16_Witness == Returned /\ VolumeOn /\ Len(ch.sec) = 2 /\ ch.pri # <<>>

\* the legend of the layout is shown
LegendVisible == Truthy(DefaultTrue(Kwargs(call).legend))

\* the call that has just ended asked for the subtitle
SubtitleOn == DefaultTrue(call.subtitle) = PyBool(TRUE)

\* the last row of the column of the chart's table labelled name
LastOf(name) == ch.df.col[name].vals[Len(ch.df.index)]

\* the upper end of the domain of the volume axis, in hundredths
VolumeAxisTop == Domain("yaxis2")[2][2]

\* the call that has just ended gets as far as the subtitle step: without the
\* subtitle it returns a figure
ReachesSubtitle ==
    /\ last = "to_figure"
    /\ to_figure(ch, [call EXCEPT !.subtitle = PyBool(FALSE)]).err = "none"

\* the annotations and the legend of the figure returned
SubtitleAsClaimed ==
    LET notes == fig[1].layout.annotations
        legend == fig[1].layout.legend
    IN  /\ (LegendVisible /\ SubtitleOn) =>
              /\ Len(notes) = IF VolumeOn THEN 2 ELSE 1
              /\ notes[1].text = "Last " \o FormatFixed2(LastOf(ch.cl))
              /\ notes[1].x = legend.x
              /\ notes[1].y = <<"legend.y", 0>>
              /\ legend.y = -3
              /\ VolumeOn =>
                    /\ notes[2].text
                          = "Volume " \o FormatComma(ch.df.col[ch.vo].dtype, LastOf(ch.vo))
                    /\ notes[2].x = legend.x
                    /\ notes[2].y = <<"paper", VolumeAxisTop - 1>>
        /\ ~(LegendVisible /\ SubtitleOn) =>
              /\ notes = <<>>
              /\ legend.y = 0

\* C17: to_figure appends subtitle annotations if and only if the legend is
\* shown and subtitle is true: then exactly one 'Last ...' annotation at the
\* legend's x and y, the legend's y lowered by 0.03, and exactly one further
\* 'Volume ...' annotation if and only if volume is enabled, 0.01 below the
\* upper end of the domain of the volume axis; otherwise no annotation, and
\* the legend is not moved.
C17_SubtitleAnnotations ==
    ReachesSubtitle => (err = "none" /\ fig # <<>> /\ SubtitleAsClaimed)

\* the column mapping a chart resolves its columns with
MappingOf(c) ==
    [op |-> c.op, hi |-> c.hi, lo |-> c.lo, cl |-> c.cl, aop |-> c.aop,
     ahi |-> c.ahi, alo |-> c.alo, acl |-> c.acl, vo |-> c.vo, di |-> c.di]

\* the answers of the column-presence predicates on a chart
Presence(c) ==
    <<has_open(c), has_high(c), has_low(c), has_close(c), has_adjusted_open(c),
      has_adjusted_high(c), has_adjusted_low(c), has_adjusted_close(c),
      has_volume(c), has_dividend(c), has_OHLC(c), has_OHLCV(c)>>

\* C18: the chart adjust or adjust_volume returns with inplace=False resolves
\* its columns with the column mapping of the receiver, so every
\* column-presence predicate gives the same answer on it as on the receiver.
C18_SameMapping ==
    (last \in {"adjust", "adjust_volume"} /\ ~call.inplace /\ ret # <<>>) =>
       /\ MappingOf(ret[1]) = MappingOf(ch)
       /\ Presence(ret[1]) = Presence(ch)

====
